---------------------------- MODULE Spec2Model ----------------------------
(***************************************************************************)
(* DatabaseSynchronizer (src/synchronizer/synchro_class.py): one-way       *)
(* synchronisation of table rows from a source database to a target        *)
(* database, with an advisory schema diff.                                  *)
(*                                                                         *)
(* The two databases are modelled as maps from table names to a column     *)
(* list and the rows held; the two MetaData objects of the synchronizer    *)
(* as maps from table names to the column list of the Table object they    *)
(* hold.  A row is a function from column names to values.                 *)
(***************************************************************************)
EXTENDS Naturals, Sequences, FiniteSets, Bags, TLC

(***************************************************************************)
(* Bounds of the model.                                                    *)
(***************************************************************************)
MaxRows == 2        \* rows held by the source database, all tables together
MaxTargetRows == 1  \* rows held by the target database at the start
MaxCalls == 2       \* public calls made on the synchronizer object
MaxAlters == 1      \* schema changes made by others between two calls
MaxDiffCols == 2    \* columns per schema handed to the diff alone

Tables == {"users", "orders"}

Null == 0
Vals == {1, 2}

(***************************************************************************)
(* Columns and types.  A type object carries a name and a length; its      *)
(* str() is the rendered form NAME or NAME(length), modelled as a tuple    *)
(* of tokens.                                                              *)
(***************************************************************************)
TypeOf(n, len) == [name |-> n, length |-> len]

TypeStr(type) ==
    IF type.length = 0 THEN <<type.name>> ELSE <<type.name, type.length>>

Col(n, type, pk) == [name |-> n, type |-> type, primary_key |-> pk]

Range(s) == {s[i] : i \in DOMAIN s}

ColNames(columns) == {columns[i].name : i \in DOMAIN columns}

\* [key.name for key in source_table.primary_key]
PrimaryKeyColumns(columns) ==
    {columns[i].name : i \in {j \in DOMAIN columns : columns[j].primary_key}}

\* {c.name: c for c in table.columns}
ColumnDict(columns) ==
    [n \in ColNames(columns) |->
        (CHOOSE c \in Range(columns) : c.name = n)]

(***************************************************************************)
(* get_table_differences, lines 32-51: the two loops over the column       *)
(* dictionaries, in dictionary (= column) order.                           *)
(***************************************************************************)
RECURSIVE SourceLoop(_, _, _, _)
SourceLoop(source_columns, target_dict, i, acc) ==
    IF i > Len(source_columns) THEN acc
    ELSE LET col_name == source_columns[i].name
             source_col == source_columns[i]
         IN IF col_name \notin DOMAIN target_dict
            THEN SourceLoop(source_columns, target_dict, i + 1,
                    [acc EXCEPT !.new_columns = Append(@, col_name)])
            ELSE IF TypeStr(source_col.type) # TypeStr(target_dict[col_name].type)
            THEN SourceLoop(source_columns, target_dict, i + 1,
                    [acc EXCEPT !.modified_columns = Append(@, col_name)])
            ELSE SourceLoop(source_columns, target_dict, i + 1, acc)

RECURSIVE TargetLoop(_, _, _, _)
TargetLoop(target_columns, source_dict, i, acc) ==
    IF i > Len(target_columns) THEN acc
    ELSE LET col_name == target_columns[i].name
         IN IF col_name \notin DOMAIN source_dict
            THEN TargetLoop(target_columns, source_dict, i + 1,
                    [acc EXCEPT !.removed_columns = Append(@, col_name)])
            ELSE TargetLoop(target_columns, source_dict, i + 1, acc)

NoDifferences ==
    [new_columns |-> <<>>, modified_columns |-> <<>>, removed_columns |-> <<>>]

\* The two tables taken in the wrong order.
DifferencesSwapped(source_columns, target_columns) ==
    TargetLoop(source_columns, ColumnDict(target_columns), 1,
        SourceLoop(target_columns, ColumnDict(source_columns), 1, NoDifferences))

Differences(source_columns, target_columns) ==
    TargetLoop(target_columns, ColumnDict(source_columns), 1,
        SourceLoop(source_columns, ColumnDict(target_columns), 1, NoDifferences))


(***************************************************************************)
(* Rows.                                                                   *)
(***************************************************************************)
Project(row, cols) == [c \in cols |-> row[c]]

SeqToBag(s) == [x \in Range(s) |-> Cardinality({i \in DOMAIN s : s[i] = x})]

\* The rows of a bag, each mapped by f (counts of equal images add up).
BagImage(f(_), bag) ==
    LET img == {f(r) : r \in DOMAIN bag}
        RECURSIVE Sum(_)
        Sum(S) == IF S = {} THEN 0
                  ELSE LET r == CHOOSE x \in S : TRUE
                       IN bag[r] + Sum(S \ {r})
    IN [y \in img |-> Sum({r \in DOMAIN bag : f(r) = y})]

NoTables == [t \in {} |-> <<>>]

\* m with key t bound to v.
Bind(m, t, v) == [x \in DOMAIN m \cup {t} |-> IF x = t THEN v ELSE m[x]]

(***************************************************************************)
(* Table(table_name, metadata, autoload_with=engine), lines 29, 30, 60,    *)
(* 80.  A MetaData object keeps the Table objects made for it: a name it   *)
(* already holds is answered with the Table it holds, without a look at    *)
(* the database; only a name it does not hold is reflected (and kept), or  *)
(* raises NoSuchTableError when the database has no such table.            *)
(***************************************************************************)
CanLoad(metadata, db, t) == t \in DOMAIN metadata \/ t \in DOMAIN db

TableColumns(metadata, db, t) ==
    IF t \in DOMAIN metadata THEN metadata[t] ELSE db[t].columns

Loaded(metadata, db, t) == Bind(metadata, t, TableColumns(metadata, db, t))

(***************************************************************************)
(* Lines 64-77: the columns of the table created in the target.            *)
(***************************************************************************)
NewColumns(source_columns) ==
    [i \in DOMAIN source_columns |->
        Col(source_columns[i].name, source_columns[i].type,
            source_columns[i].primary_key)]

(***************************************************************************)
(* Lines 90-93: the lookup predicate, a conjunction over the primary key   *)
(* columns (and_ of no clause filters nothing).                            *)
(***************************************************************************)
\* A match on any one column of the key.
AnyKeyColumn(primary_key_columns, target_row, source_row) ==
    \E col \in primary_key_columns : target_row[col] = source_row[col]

\* An empty conjunction taken as false.
NonEmptyKeyCondition(primary_key_columns, target_row, source_row) ==
    /\ primary_key_columns # {}
    /\ \A col \in primary_key_columns : target_row[col] = source_row[col]

PrimaryKeyCondition(primary_key_columns, target_row, source_row) ==
    \A col \in primary_key_columns : target_row[col] = source_row[col]

(***************************************************************************)
(* Lines 100-103: all(...) over all_columns in order, stopping at the      *)
(* first column that differs; reading a column the fetched record does not *)
(* have raises AttributeError.                                             *)
(***************************************************************************)
RECURSIVE RecordsMatch(_, _, _, _)
RecordsMatch(all_columns, source_row, existing, i) ==
    IF i > Len(all_columns) THEN "match"
    ELSE LET col == all_columns[i].name
         IN IF col \notin DOMAIN existing THEN "error"
            ELSE IF source_row[col] # existing[col] THEN "differ"
            ELSE RecordsMatch(all_columns, source_row, existing, i + 1)

\* Lines 99, 105, 115: whether the row is inserted.
InsertNeeded(existing, records_match) ==
    existing = {} \/ records_match = "differ"

\* Lines 106-109, 116-119: the record inserted.
NewRecord(all_columns, source_row) ==
    [col \in ColNames(all_columns) |-> source_row[col]]

\* The row the target table stores for an inserted record: the columns the
\* record does not name are NULL.
StoredRow(target_columns, new_record) ==
    [c \in ColNames(target_columns) |->
        IF c \in DOMAIN new_record THEN new_record[c] ELSE Null]

\* The target's own primary key constraint on an insert.
ConstraintHolds(target_columns, rows, stored) ==
    LET pk == PrimaryKeyColumns(target_columns)
    IN pk # {} =>
        /\ \A c \in pk : stored[c] # Null
        /\ \A r \in DOMAIN rows : Project(r, pk) # Project(stored, pk)

\* Lines 110, 120: the rows the transaction sees after the insert.
Inserted(rows, stored) == rows (+) SetToBag({stored})

\* The writes made before the exception stay (each statement committed alone).
KeptOnError(committed, rows) == rows

\* Leaving "with self.target_engine.begin()" (line 88) by an exception rolls
\* the transaction back: the table holds what was committed.
RolledBack(committed, rows) == committed

\* The commit left out.
NotCommitted(committed, rows) == committed

\* The table replaced by the rows written in this call.
OnlyNewRows(committed, rows) == rows (-) committed

\* Line 125.
Committed(committed, rows) == rows

(***************************************************************************)
(* Lines 129-131 and 144-153: an exception is logged and raised again, and *)
(* the loop of synchronize_database catches nothing: the call ends.        *)
(***************************************************************************)
\* The loop of synchronize_database going on with the next table.
ContinueAfterError(c) ==
    IF c.op = "synchronize_database"
    THEN [pc |-> "db_loop", pos |-> c.pos + 1]
    ELSE [pc |-> "idle", pos |-> c.pos]

AfterError(c) == [pc |-> "idle", pos |-> c.pos]


(***************************************************************************)
(* State.                                                                  *)
(***************************************************************************)
VARIABLES
    source_db,          \* table name -> [columns, rows (a sequence)]
    target_db,          \* table name -> [columns, rows (a bag, committed)]
    source_metadata,    \* self.source_metadata: table name -> columns
    target_metadata,    \* self.target_metadata: table name -> columns
    pc,                 \* "idle", "db_loop" (line 144), "sync" (line 60), "rows" (line 89)
    call,               \* the public call in progress, or the last one
    table_name,         \* the table synchronize_table works on
    source_data,        \* line 83
    row_index,          \* position of the loop of line 89 in source_data
    txn,                \* rows of the target table as the open transaction sees them
    existing_record,    \* line 95: {} (None) or {the record fetched}
    differences,        \* what get_table_differences returned last
    outcome,            \* "none", "returned" or "raised": how the last call ended
    before,             \* the target database and metadata when the call began
    visited,            \* tables the call has diffed, in order
    synced,             \* tables the call has committed, in order
    previous,           \* the call before this one, if nothing changed in between
    faulted,            \* whether a statement of the call failed in the database
    calls_left,         \* public calls still to be made
    alters              \* schema changes made by others

vars == <<source_db, target_db, source_metadata, target_metadata, pc, call,
          table_name, source_data, row_index, txn, existing_record,
          differences, outcome, before, visited, synced, previous,
          faulted, calls_left, alters>>

loop_vars == <<table_name, source_data, row_index, txn, existing_record>>

INTEGER == TypeOf("INTEGER", 0)
VARCHAR(n) == TypeOf("VARCHAR", n)

\* The table shapes the databases start with.
ById == <<Col("id", INTEGER, TRUE), Col("name", VARCHAR(16), FALSE)>>
Composite == <<Col("id", INTEGER, TRUE), Col("region", INTEGER, TRUE),
               Col("name", VARCHAR(16), FALSE)>>
NoKey == <<Col("id", INTEGER, FALSE), Col("name", VARCHAR(16), FALSE)>>
CompositeNoKey == <<Col("id", INTEGER, FALSE), Col("region", INTEGER, FALSE),
                    Col("name", VARCHAR(16), FALSE)>>

SourceSchemas == {ById, Composite, NoKey}
TargetSchemas == {ById, Composite, NoKey, CompositeNoKey}

\* Columns others may add to a table between two calls.
ExtraColumns == {Col("region", INTEGER, FALSE), Col("name", VARCHAR(32), FALSE)}

KeysDistinct(columns, rows) ==
    LET pk == PrimaryKeyColumns(columns)
    IN pk # {} =>
        \A i, j \in DOMAIN rows :
            i # j => Project(rows[i], pk) # Project(rows[j], pk)

RowSeqs(columns, n) ==
    {rows \in UNION {[1..k -> [ColNames(columns) -> Vals]] : k \in 0..n} :
        KeysDistinct(columns, rows)}

SourceTables ==
    UNION {{[columns |-> cs, rows |-> rows] : rows \in RowSeqs(cs, MaxRows)} :
            cs \in SourceSchemas}

TargetTables ==
    UNION {{[columns |-> cs, rows |-> SeqToBag(rows)] :
                rows \in RowSeqs(cs, MaxTargetRows)} :
            cs \in TargetSchemas}

NoCall == [op |-> "none", tables |-> <<>>, pos |-> 0]

Idle ==
    /\ source_metadata = NoTables
    /\ target_metadata = NoTables
    /\ pc = "idle"
    /\ call = NoCall
    /\ table_name = ""
    /\ source_data = <<>>
    /\ row_index = 0
    /\ txn = EmptyBag
    /\ existing_record = {}
    /\ differences = NoDifferences
    /\ outcome = "none"
    /\ before = [target_db |-> target_db, target_metadata |-> NoTables]
    /\ visited = <<>>
    /\ synced = <<>>
    /\ previous = [op |-> "none", tables |-> <<>>, outcome |-> "none"]
    /\ faulted = FALSE
    /\ alters = 0

\* Lines 15-19: a new synchronizer holds two empty MetaData objects; the
\* databases hold whatever they hold.
SmallRows == {r \in [ColNames(ById) -> Vals] : r.id = 1}

OldRow == [id |-> 1, name |-> 1]

SmallSourceTables ==
    {[columns |-> ById, rows |-> <<r>>] : r \in SmallRows}

SmallTargetTables ==
    {[columns |-> cs, rows |-> rows] :
        cs \in {ById, NoKey}, rows \in {EmptyBag, SetToBag({OldRow})}}

\* Every table of the source holds one row, with id 1; the target has the
\* table or not, with or without the key constraint, empty or with a row of
\* that id.
InitSmall ==
    /\ source_db \in [Tables -> SmallSourceTables]
    /\ \E S \in SUBSET Tables : target_db \in [S -> SmallTargetTables]
    /\ Idle

Init ==
    /\ InitSmall
    /\ calls_left = MaxCalls


(***************************************************************************)
(* The start and the end of a public call.                                 *)
(***************************************************************************)
BeginCall(op, tables) ==
    /\ pc = "idle"
    /\ calls_left > 0
    /\ calls_left' = calls_left - 1
    /\ call' = [op |-> op, tables |-> tables, pos |-> 1]
    /\ previous' = [op |-> call.op, tables |-> call.tables, outcome |-> outcome]
    /\ before' = [target_db |-> target_db, target_metadata |-> target_metadata]
    /\ visited' = <<>>
    /\ synced' = <<>>
    /\ source_data' = <<>>
    /\ row_index' = 0
    /\ txn' = EmptyBag
    /\ existing_record' = {}
    /\ faulted' = FALSE

Return ==
    /\ pc' = "idle"
    /\ outcome' = "returned"

\* An exception leaves the frame it was raised in.
Raise ==
    LET next == AfterError(call)
    IN /\ pc' = next.pc
       /\ call' = [call EXCEPT !.pos = next.pos]
       /\ outcome' = IF next.pc = "idle" THEN "raised" ELSE outcome

(***************************************************************************)
(* get_table_differences(table_name), lines 23-51.                         *)
(***************************************************************************)
DiffOk(t) ==
    /\ CanLoad(source_metadata, source_db, t)
    /\ CanLoad(target_metadata, target_db, t)

DiffEffect(t) ==
    /\ source_metadata' =
        IF CanLoad(source_metadata, source_db, t)
        THEN Loaded(source_metadata, source_db, t) ELSE source_metadata
    /\ target_metadata' =
        IF DiffOk(t)
        THEN Loaded(target_metadata, target_db, t) ELSE target_metadata
    /\ differences' =
        IF DiffOk(t)
        THEN Differences(TableColumns(source_metadata, source_db, t),
                         TableColumns(target_metadata, target_db, t))
        ELSE differences

GetTableDifferences(t) ==
    /\ BeginCall("get_table_differences", <<t>>)
    /\ DiffEffect(t)
    /\ pc' = "idle"
    /\ outcome' = IF DiffOk(t) THEN "returned" ELSE "raised"
    /\ table_name' = ""
    /\ UNCHANGED <<source_db, target_db, alters>>

(***************************************************************************)
(* synchronize_table(table_name), lines 53-131.                            *)
(***************************************************************************)
SynchronizeTable(t) ==
    /\ BeginCall("synchronize_table", <<t>>)
    /\ pc' = "sync"
    /\ table_name' = t
    /\ outcome' = "running"
    /\ UNCHANGED <<source_db, target_db, source_metadata, target_metadata,
                   differences, alters>>

\* Lines 60-86: load the source table, create the target table when the
\* target has none, load the target table, read the source rows.
SyncBegin ==
    /\ pc = "sync"
    /\ UNCHANGED <<source_db, existing_record, differences, before, visited,
                   synced, previous, faulted, calls_left, alters,
                   table_name>>
    /\ IF ~CanLoad(source_metadata, source_db, table_name)
       THEN /\ Raise
            /\ UNCHANGED <<target_db, source_metadata, target_metadata,
                           source_data, row_index, txn>>
       ELSE LET t == table_name
                source_table == TableColumns(source_metadata, source_db, t)
                created ==
                    IF t \in DOMAIN target_db THEN target_db
                    ELSE Bind(target_db, t,
                            [columns |-> NewColumns(source_table),
                             rows |-> EmptyBag])
                readable ==
                    /\ t \in DOMAIN source_db
                    /\ ColNames(source_table) \subseteq
                            ColNames(source_db[t].columns)
            IN /\ source_metadata' = Loaded(source_metadata, source_db, t)
               /\ target_db' = created
               /\ target_metadata' = Loaded(target_metadata, created, t)
               /\ IF readable
                  THEN /\ source_data' =
                            [i \in DOMAIN source_db[t].rows |->
                                Project(source_db[t].rows[i],
                                        ColNames(source_table))]
                       /\ row_index' = 1
                       /\ txn' = created[t].rows
                       /\ pc' = "rows"
                       /\ UNCHANGED <<call, outcome>>
                  ELSE /\ Raise
                       /\ UNCHANGED <<source_data, row_index, txn>>

\* What one pass of the loop body, lines 90-123, does with the record the
\* lookup fetched (found: {} or {a row of the table}).
RowStep(source_table, target_table, target_columns, rows, source_row, found) ==
    LET existing == {Project(r, ColNames(target_table)) : r \in found}
        records_match ==
            IF existing = {} THEN "none"
            ELSE RecordsMatch(source_table, source_row,
                              CHOOSE r \in existing : TRUE, 1)
        new_record == NewRecord(source_table, source_row)
        stored == StoredRow(target_columns, new_record)
    IN IF records_match = "error"
       THEN [raised |-> TRUE, existing |-> existing, rows |-> rows]
       ELSE IF ~InsertNeeded(existing, records_match)
       THEN [raised |-> FALSE, existing |-> existing, rows |-> rows]
       ELSE IF /\ DOMAIN new_record \subseteq ColNames(target_table)
               /\ ConstraintHolds(target_columns, rows, stored)
       THEN [raised |-> FALSE, existing |-> existing,
             rows |-> Inserted(rows, stored)]
       ELSE [raised |-> TRUE, existing |-> existing, rows |-> rows]

\* Leaving the loop by an exception: lines 88 and 129-131.
Abort ==
    /\ target_db' = [target_db EXCEPT
                        ![table_name].rows = RolledBack(@, txn)]
    /\ txn' = EmptyBag
    /\ Raise
    /\ UNCHANGED <<source_data, row_index>>

SyncRow ==
    /\ pc = "rows"
    /\ row_index <= Len(source_data)
    /\ UNCHANGED <<source_db, source_metadata, target_metadata, differences,
                   before, visited, synced, previous, faulted, calls_left,
                   alters,                   table_name>>
    /\ LET t == table_name
           source_table == source_metadata[t]
           target_table == target_metadata[t]
           target_columns == target_db[t].columns
           source_row == source_data[row_index]
           primary_key_columns == PrimaryKeyColumns(source_table)
       IN IF \/ ~(primary_key_columns \subseteq ColNames(target_table))
             \/ ~(ColNames(target_table) \subseteq ColNames(target_columns))
          THEN /\ existing_record' = {}
               /\ Abort
          ELSE LET matching ==
                    {r \in DOMAIN txn :
                        PrimaryKeyCondition(primary_key_columns, r, source_row)}
               IN \E found \in (IF matching = {} THEN {{}}
                                ELSE {{r} : r \in matching}) :
                    LET step == RowStep(source_table, target_table,
                                    target_columns, txn, source_row, found)
                    IN /\ existing_record' = step.existing
                       /\ IF step.raised
                          THEN Abort
                          ELSE /\ txn' = step.rows
                               /\ row_index' = row_index + 1
                               /\ UNCHANGED <<target_db, pc, call, outcome,
                                              source_data>>

\* A statement of the loop fails in the database (connection lost, timeout).
SyncRowFault ==
    /\ pc = "rows"
    /\ row_index <= Len(source_data)
    /\ Abort
    /\ faulted' = TRUE
    /\ UNCHANGED <<source_db, source_metadata, target_metadata, differences,
                   before, visited, synced, previous, calls_left, alters,
                   table_name, existing_record>>

\* Lines 125-126, and the return to the caller.
SyncCommit ==
    /\ pc = "rows"
    /\ row_index > Len(source_data)
    /\ target_db' = [target_db EXCEPT
                        ![table_name].rows = Committed(@, txn)]
    /\ txn' = EmptyBag
    /\ IF call.op = "synchronize_database"
       THEN /\ pc' = "db_loop"
            /\ call' = [call EXCEPT !.pos = @ + 1]
            /\ synced' = Append(synced, table_name)
            /\ UNCHANGED outcome
       ELSE /\ Return
            /\ UNCHANGED <<call, synced>>
    /\ UNCHANGED <<source_db, source_metadata, target_metadata, differences,
                   before, visited, previous, faulted, calls_left, alters,
                   table_name,
                   source_data, row_index, existing_record>>


(***************************************************************************)
(* synchronize_database(tables), lines 134-153.                            *)
(***************************************************************************)
TableLists == UNION {[1..k -> Tables] : k \in 0..Cardinality(Tables)}

SynchronizeDatabase(tables) ==
    /\ BeginCall("synchronize_database", tables)
    /\ pc' = "db_loop"
    /\ outcome' = "running"
    /\ table_name' = ""
    /\ UNCHANGED <<source_db, target_db, source_metadata, target_metadata,
                   differences, alters>>

\* Lines 140-142: tables is None.  reflect() loads the tables of the source
\* database that the MetaData does not hold yet; the list is every table
\* the MetaData then holds.
SynchronizeDatabaseAll ==
    LET reflected ==
            [t \in DOMAIN source_metadata \cup DOMAIN source_db |->
                TableColumns(source_metadata, source_db, t)]
    IN \E tables \in TableLists :
        /\ Range(tables) = DOMAIN reflected
        /\ Len(tables) = Cardinality(DOMAIN reflected)
        /\ BeginCall("synchronize_database", tables)
        /\ source_metadata' = reflected
        /\ pc' = "db_loop"
        /\ outcome' = "running"
        /\ table_name' = ""
        /\ UNCHANGED <<source_db, target_db, target_metadata, differences,
                       alters>>

\* Lines 144-151 for the next table of the list.
DbDiff ==
    /\ pc = "db_loop"
    /\ call.pos <= Len(call.tables)
    /\ LET t == call.tables[call.pos]
       IN /\ DiffEffect(t)
          /\ visited' = Append(visited, t)
          /\ IF DiffOk(t)
             THEN /\ pc' = "sync"
                  /\ table_name' = t
                  /\ UNCHANGED <<call, outcome>>
             ELSE /\ Raise
                  /\ UNCHANGED table_name
    /\ UNCHANGED <<source_db, target_db, source_data, row_index, txn,
                   existing_record, before, synced, previous, faulted,
                   calls_left, alters>>

\* The list is exhausted: the call returns.
DbDone ==
    /\ pc = "db_loop"
    /\ call.pos > Len(call.tables)
    /\ Return
    /\ UNCHANGED <<source_db, target_db, source_metadata, target_metadata,
                   call, loop_vars, differences, before, visited, synced,
                   previous, faulted, calls_left, alters>>

(***************************************************************************)
(* Others change a table's columns between two calls of the synchronizer.  *)
(***************************************************************************)
Altered ==
    /\ pc = "idle"
    /\ call.op # "none"
    /\ alters < MaxAlters
    /\ alters' = alters + 1
    /\ call' = NoCall
    /\ outcome' = "none"
    /\ UNCHANGED <<source_metadata, target_metadata, pc, loop_vars,
                   differences, before, visited, synced, previous, faulted,
                   calls_left>>

WithNull(row, n) == [c \in DOMAIN row \cup {n} |-> IF c = n THEN Null ELSE row[c]]

Without(columns, n) == SelectSeq(columns, LAMBDA c : c.name # n)

AddSourceColumn(t, c) ==
    /\ t \in DOMAIN source_db
    /\ c.name \notin ColNames(source_db[t].columns)
    /\ Altered
    /\ source_db' = [source_db EXCEPT ![t] =
            [columns |-> Append(@.columns, c),
             rows |-> [i \in DOMAIN @.rows |-> WithNull(@.rows[i], c.name)]]]
    /\ UNCHANGED target_db

DropSourceColumn(t, n) ==
    /\ t \in DOMAIN source_db
    /\ n \in ColNames(source_db[t].columns)
                \ PrimaryKeyColumns(source_db[t].columns)
    /\ Altered
    /\ source_db' = [source_db EXCEPT ![t] =
            [columns |-> Without(@.columns, n),
             rows |-> [i \in DOMAIN @.rows |->
                        Project(@.rows[i], DOMAIN @.rows[i] \ {n})]]]
    /\ UNCHANGED target_db

AddTargetColumn(t, c) ==
    /\ t \in DOMAIN target_db
    /\ c.name \notin ColNames(target_db[t].columns)
    /\ Altered
    /\ target_db' = [target_db EXCEPT ![t] =
            [columns |-> Append(@.columns, c),
             rows |-> BagImage(LAMBDA r : WithNull(r, c.name), @.rows)]]
    /\ UNCHANGED source_db

DropTargetColumn(t, n) ==
    /\ t \in DOMAIN target_db
    /\ n \in ColNames(target_db[t].columns)
                \ PrimaryKeyColumns(target_db[t].columns)
    /\ Altered
    /\ target_db' = [target_db EXCEPT ![t] =
            [columns |-> Without(@.columns, n),
             rows |-> BagImage(LAMBDA r : Project(r, DOMAIN r \ {n}), @.rows)]]
    /\ UNCHANGED source_db

ColumnNames == {"id", "region", "name"}

Next ==
    \/ \E t \in Tables : GetTableDifferences(t)
    \/ \E t \in Tables : SynchronizeTable(t)
    \/ \E tables \in TableLists : SynchronizeDatabase(tables)
    \/ SynchronizeDatabaseAll
    \/ DbDiff
    \/ DbDone
    \/ SyncBegin
    \/ SyncRow
    \/ SyncRowFault
    \/ SyncCommit
    \/ \E t \in Tables, c \in ExtraColumns : AddSourceColumn(t, c)
    \/ \E t \in Tables, n \in ColumnNames : DropSourceColumn(t, n)
    \/ \E t \in Tables, c \in ExtraColumns : AddTargetColumn(t, c)
    \/ \E t \in Tables, n \in ColumnNames : DropTargetColumn(t, n)

Spec == Init /\ [][Next]_vars


(***************************************************************************)
(* synchronize_table alone, on one table with any rows.                    *)
(***************************************************************************)
InitRows ==
    /\ source_db \in [{"users"} -> SourceTables]
    /\ \E S \in SUBSET {"users"} : target_db \in [S -> TargetTables]
    /\ Idle
    /\ calls_left = MaxCalls - 1

NextRows ==
    \/ \E t \in Tables : SynchronizeTable(t)
    \/ SyncBegin
    \/ SyncRow
    \/ SyncRowFault
    \/ SyncCommit

SpecRows == InitRows /\ [][NextRows]_vars


(***************************************************************************)
(* synchronize_database alone.                                             *)
(***************************************************************************)
InitDatabase ==
    /\ InitSmall
    /\ calls_left = MaxCalls - 1

NextDatabase ==
    \/ \E tables \in TableLists : SynchronizeDatabase(tables)
    \/ SynchronizeDatabaseAll
    \/ DbDiff
    \/ DbDone
    \/ SyncBegin
    \/ SyncRow
    \/ SyncRowFault
    \/ SyncCommit

SpecDatabase == InitDatabase /\ [][NextDatabase]_vars


(***************************************************************************)
(* get_table_differences alone, on any two column lists.                   *)
(***************************************************************************)
DiffNames == {"id", "name", "email"}
DiffTypes == {INTEGER, VARCHAR(16), VARCHAR(32)}

DiffSchemas ==
    {cs \in UNION {[1..k -> [name : DiffNames, type : DiffTypes,
                             primary_key : {FALSE}]] : k \in 0..MaxDiffCols} :
        \A i, j \in DOMAIN cs : i # j => cs[i].name # cs[j].name}

DiffTables == {[columns |-> cs, rows |-> <<>>] : cs \in DiffSchemas}

InitDiff ==
    /\ \E S \in SUBSET {"users"} : source_db \in [S -> DiffTables]
    /\ \E S \in SUBSET {"users"} :
            target_db \in [S -> {[columns |-> cs, rows |-> EmptyBag] :
                                    cs \in DiffSchemas}]
    /\ Idle
    /\ calls_left = MaxCalls - 1

NextDiff == \E t \in Tables : GetTableDifferences(t)

SpecDiff == InitDiff /\ [][NextDiff]_vars

(***************************************************************************)
(* Properties.                                                             *)
(***************************************************************************)
RowsOf(db, t) == IF t \in DOMAIN db THEN db[t].rows ELSE EmptyBag

TypeNamed(columns, n) == (CHOOSE c \in Range(columns) : c.name = n).type

NoRepeats(s) == Cardinality(Range(s)) = Len(s)

DiffReturned ==
    /\ pc = "idle"
    /\ call.op = "get_table_differences"
    /\ outcome = "returned"

\* C9: get_table_differences returns as new_columns the column names of the
\* source that the target lacks, as removed_columns the names of the target
\* that the source lacks, as modified_columns the names in both whose type
\* strings differ, whatever the order of the columns; the three lists are
\* pairwise disjoint, and all empty for two identical schemas.
C9_DiffIsSetDifference ==
    DiffReturned =>
        LET t == call.tables[1]
            S == source_db[t].columns
            T == target_db[t].columns
            d == differences
        IN /\ Range(d.new_columns) = ColNames(S) \ ColNames(T)
           /\ Range(d.removed_columns) = ColNames(T) \ ColNames(S)
           /\ Range(d.modified_columns) =
                {n \in ColNames(S) \cap ColNames(T) :
                    TypeStr(TypeNamed(S, n)) # TypeStr(TypeNamed(T, n))}
           /\ NoRepeats(d.new_columns)
           /\ NoRepeats(d.removed_columns)
           /\ NoRepeats(d.modified_columns)
           /\ Range(d.new_columns) \cap Range(d.modified_columns) = {}
           /\ Range(d.new_columns) \cap Range(d.removed_columns) = {}
           /\ Range(d.modified_columns) \cap Range(d.removed_columns) = {}
           /\ (ColumnDict(S) = ColumnDict(T) => d = NoDifferences)

\* A diff that reports a new, a modified and a removed column at once.
C9_Witness ==
    /\ DiffReturned
    /\ differences.new_columns # <<>>
    /\ differences.modified_columns # <<>>
    /\ differences.removed_columns # <<>>


TableReturned ==
    /\ pc = "idle"
    /\ call.op = "synchronize_table"
    /\ outcome = "returned"

OnColumns(cols, rows) == BagImage(LAMBDA r : Project(r, cols), rows)

\* C1: for a source table with a primary key, when the target table held no
\* row before synchronize_table and the call returned, the target holds
\* exactly the source rows: each one once, with the source's values.
C1_EmptyTargetGetsSourceRows ==
    TableReturned =>
        LET t == call.tables[1]
            S == source_db[t].columns
        IN (PrimaryKeyColumns(S) # {} /\ RowsOf(before.target_db, t) = EmptyBag)
            => OnColumns(ColNames(S), target_db[t].rows)
                    = SeqToBag(source_db[t].rows)

\* Two source rows with a composite key copied into a target table that was
\* there, empty.
C1_Witness ==
    /\ TableReturned
    /\ call.tables[1] \in DOMAIN before.target_db
    /\ RowsOf(before.target_db, call.tables[1]) = EmptyBag
    /\ Cardinality(PrimaryKeyColumns(source_db[call.tables[1]].columns)) = 2
    /\ Len(source_db[call.tables[1]].rows) = 2
    /\ BagCardinality(target_db[call.tables[1]].rows) = 2

\* A pass of the loop of line 89 that did not raise.
RowDone == pc = "rows" /\ row_index' = row_index + 1

\* What the pass was to do with source row `row`, having fetched `fetched`
\* ({} or {record}): insert the row next to what is there when nothing was
\* fetched or the record fetched differs in some source column, else nothing.
Reconciled(row, fetched) ==
    IF fetched = {} \/ \E e \in fetched : \E c \in DOMAIN row : e[c] # row[c]
    THEN /\ BagCardinality(txn') = BagCardinality(txn) + 1
         /\ txn \sqsubseteq txn'
         /\ \A r \in DOMAIN (txn' (-) txn) : Project(r, DOMAIN row) = row
    ELSE txn' = txn

\* C3: with a primary key, a target row is a match only if it equals the
\* source row on all key columns; no match: the row is inserted; a match
\* that differs in some source column: the full source row is inserted next
\* to it; a match equal in all source columns: nothing is inserted.
C3_ReconcileByFullKey ==
    [][(RowDone /\ PrimaryKeyColumns(source_metadata[table_name]) # {}) =>
        LET row == source_data[row_index]
            pk == PrimaryKeyColumns(source_metadata[table_name])
            matches == {r \in DOMAIN txn : \A c \in pk : r[c] = row[c]}
        IN /\ existing_record' = {} <=> matches = {}
           /\ \A e \in existing_record' :
                \E r \in matches : e = Project(r, DOMAIN e)
           /\ Reconciled(row, existing_record')
      ]_vars

\* A row was inserted as new although a row of the target shares one column
\* of its two-column key.
C3_Witness ==
    /\ pc = "rows"
    /\ row_index > 1
    /\ existing_record = {}
    /\ Cardinality(PrimaryKeyColumns(source_metadata[table_name])) = 2
    /\ \E r \in DOMAIN target_db[table_name].rows :
            /\ r["id"] = source_data[row_index - 1]["id"]
            /\ r["region"] # source_data[row_index - 1]["region"]
    /\ BagCardinality(txn) > BagCardinality(target_db[table_name].rows)

\* C10: without a primary key the lookup filters nothing: the record fetched
\* is any one row of the table as the transaction sees it (rows inserted
\* earlier in the call included), and the source row is inserted exactly
\* when the table is empty at that moment or the row differs from that
\* record.
C10_NoKeyComparesWithAnyRow ==
    [][(RowDone /\ PrimaryKeyColumns(source_metadata[table_name]) = {}) =>
        LET row == source_data[row_index]
        IN /\ existing_record' = {} <=> txn = EmptyBag
           /\ \A e \in existing_record' :
                \E r \in DOMAIN txn : e = Project(r, DOMAIN e)
           /\ Reconciled(row, existing_record')
      ]_vars

\* A source row of a table without key compared with a row inserted earlier
\* in the same call, and inserted because it differs.
C10_Witness ==
    /\ pc = "rows"
    /\ row_index = 3
    /\ PrimaryKeyColumns(source_metadata[table_name]) = {}
    /\ target_db[table_name].rows = EmptyBag
    /\ existing_record # {}
    /\ BagCardinality(txn) = 2

\* C5: while the loop runs the table holds what it held before the call;
\* when a pass fails the call ends raising, with the rows of the table as
\* before the call; the rows written appear only once every source row was
\* processed.
C5_AllOrNothing ==
    [][(pc = "rows" /\ call.op = "synchronize_table") =>
        LET t == table_name
        IN /\ target_db[t].rows = RowsOf(before.target_db, t)
           /\ \/ pc' = "rows" /\ target_db' = target_db
              \/ /\ pc' = "idle"
                 /\ outcome' = "raised"
                 /\ target_db'[t].rows = RowsOf(before.target_db, t)
              \/ /\ pc' = "idle"
                 /\ outcome' = "returned"
                 /\ row_index > Len(source_data)
                 /\ target_db'[t].rows = txn
      ]_vars

\* The call raised on its second source row, after inserting the first into
\* an empty table.
C5_Witness ==
    /\ pc = "idle"
    /\ call.op = "synchronize_table"
    /\ outcome = "raised"
    /\ row_index = 2
    /\ call.tables[1] \in DOMAIN before.target_db
    /\ before.target_db[call.tables[1]].rows = EmptyBag
    /\ target_db[call.tables[1]].rows = EmptyBag

\* C8: synchronize_table only adds rows: whether it returns or raises, every
\* row the target table held before the call is still there, unchanged.
C8_RowsOnlyAdded ==
    (pc = "idle" /\ call.op = "synchronize_table") =>
        \A t \in DOMAIN before.target_db :
            /\ t \in DOMAIN target_db
            /\ target_db[t].columns = before.target_db[t].columns
            /\ before.target_db[t].rows \sqsubseteq target_db[t].rows

\* A call that returned after adding a row to a table that held one.
C8_Witness ==
    /\ TableReturned
    /\ call.tables[1] \in DOMAIN before.target_db
    /\ before.target_db[call.tables[1]].rows # EmptyBag
    /\ BagCardinality(target_db[call.tables[1]].rows)
            > BagCardinality(before.target_db[call.tables[1]].rows)


DatabaseEnded ==
    /\ pc = "idle"
    /\ call.op = "synchronize_database"

\* The table at position j of the list is as the call found it: not created,
\* not written, not loaded into the target MetaData.
Untouched(j) ==
    LET t == call.tables[j]
    IN /\ t \in DOMAIN target_db <=> t \in DOMAIN before.target_db
       /\ t \in DOMAIN target_db => target_db[t] = before.target_db[t]
       /\ t \in DOMAIN target_metadata <=> t \in DOMAIN before.target_metadata

\* Every source row of the table at position i has its row in the target.
RowsKept(i) ==
    LET t == call.tables[i]
        cols == ColNames(source_db[t].columns)
    IN \A n \in DOMAIN source_db[t].rows :
        \E r \in DOMAIN RowsOf(target_db, t) :
            Project(r, cols) = source_db[t].rows[n]

\* C6: synchronize_database works through the named tables in the given
\* order and stops at the first error: when the table at position k raises,
\* the call raises, the tables diffed are those up to k, the tables
\* committed those before k with their rows in the target, and no table
\* after k is diffed, created or written.
C6_InOrderAndFailFast ==
    DatabaseEnded =>
        LET tables == call.tables
            k == Len(visited)
        IN /\ outcome = "returned" => visited = tables /\ synced = tables
           /\ outcome = "raised" =>
                /\ k >= 1
                /\ visited = SubSeq(tables, 1, k)
                /\ synced = SubSeq(tables, 1, k - 1)
                /\ \A i \in 1..(k - 1) : RowsKept(i)
                /\ \A j \in (k + 1)..Len(tables) :
                        tables[j] \notin Range(visited) => Untouched(j)

\* The first of two different tables raised, and the call ended there.
C6_Witness ==
    /\ DatabaseEnded
    /\ outcome = "raised"
    /\ Len(call.tables) = 2
    /\ call.tables[1] # call.tables[2]
    /\ visited = <<call.tables[1]>>

\* C2: synchronize_database([t]) for a table the source has and the target
\* lacks goes from the diff to the creation of the target table to the copy
\* of the rows: the call returns, the target has a table t with the source's
\* columns, and the source rows are in it.
C2_MissingTargetTableIsCreated ==
    (/\ DatabaseEnded
     /\ Len(call.tables) = 1
     /\ ~faulted
     /\ call.tables[1] \in DOMAIN source_db
     /\ call.tables[1] \notin DOMAIN before.target_db)
    => LET t == call.tables[1]
       IN /\ outcome = "returned"
          /\ t \in DOMAIN target_db
          /\ target_db[t].columns = source_db[t].columns
          /\ target_db[t].rows = SeqToBag(source_db[t].rows)

\* C4: a second synchronize_table run right after a first one that returned,
\* the source unchanged, inserts nothing: the target is as the first run
\* left it, whatever it held at the start.
C4_SecondRunInsertsNothing ==
    (/\ TableReturned
     /\ previous = [op |-> "synchronize_table", tables |-> call.tables,
                    outcome |-> "returned"])
    => target_db = before.target_db

\* C7: no schema is cached: a call works with the columns the two databases
\* have when it is made, so the diff returned is the diff of the current
\* columns.
C7_SchemasReadFresh ==
    (/\ DiffReturned
     /\ call.tables[1] \in DOMAIN source_db
     /\ call.tables[1] \in DOMAIN target_db)
    => differences = Differences(source_db[call.tables[1]].columns,
                                 target_db[call.tables[1]].columns)

=============================================================================
